---- MODULE Spec2Model ----
(***************************************************************************)
(* Model of the two OptionB scripts of vectorstock-search:                 *)
(*   process-OptionB-search_results.py  (the Reconciler: merges the        *)
(*       search_* folders into unique_artworks and art_id_to_folders and   *)
(*       saves the art-id mapping CSV), and                                *)
(*   prune-OptionB-search_results.py    (the Subset Selector: reads the    *)
(*       mapping CSV and selects the subset in four tiers, then shuffles). *)
(*       Its create_subset_json writes the selected artworks of the        *)
(*       Reconciler's JSON and counts the selected ids it did not find.    *)
(* A folder "search_<n>" is modelled by the number n; the order of folder  *)
(* names is the order of the strings, computed digit by digit.  An art_id  *)
(* is a positive integer, NoId stands for a record without art_id.  The    *)
(* payload of a record is modelled by the place it was read from,          *)
(* <<folder, position>>, so that two records never carry the same payload. *)
(***************************************************************************)
EXTENDS Integers, Sequences, FiniteSets, TLC

\* ------------------------------------------------------------------ bounds
MaxId == 3
MaxBatch == 2
MaxItems == 3
MaxTarget == 3
MaxMin == 2
MaxNeg == 1
MaxRows == 4
MaxWanted == 4

\* The search_* directories of the Reconciler's input folder.  "search_10"
\* sorts before "search_2" (line 64 sorts by name).
Dirs == {2, 10}

\* artwork.get("art_id") is None
NoId == 0

ArtIds == 1..MaxId

\* ------------------------------------------------------------- sequences
Range(s) == {s[i] : i \in 1..Len(s)}

\* No element occurs twice in the sequence.
NoRepeat(s) == \A i, j \in 1..Len(s) : i # j => s[i] # s[j]

RECURSIVE SeqSum(_)
SeqSum(s) == IF s = <<>> THEN 0 ELSE Head(s) + SeqSum(Tail(s))

\* All sequences over S of length at most n.
SeqsUpTo(S, n) == UNION {[1..k -> S] : k \in 0..n}

\* All arrangements of k distinct elements of the sequence pop (by position).
Arrangements(pop, k) ==
    {[i \in 1..k |-> pop[p[i]]] :
        p \in {q \in [1..k -> 1..Len(pop)] :
                 \A i, j \in 1..k : i # j => q[i] # q[j]}}

\* ---------------------------------------------------------- folder names
\* The decimal digits of n, most significant first: the text after "search_".
RECURSIVE Digits(_)
Digits(n) == IF n < 10 THEN <<n>> ELSE Append(Digits(n \div 10), n % 10)

\* s < t as Python compares strings: the first differing character decides,
\* a proper prefix is smaller.
RECURSIVE LexLess(_, _)
LexLess(s, t) ==
    IF t = <<>> THEN FALSE
    ELSE IF s = <<>> THEN TRUE
    ELSE IF Head(s) # Head(t) THEN Head(s) < Head(t)
    ELSE LexLess(Tail(s), Tail(t))

NameLess(a, b) == LexLess(Digits(a), Digits(b))

\* sorted(...) of a set of folder names.
RECURSIVE SortNames(_)
SortNames(S) ==
    IF S = {} THEN <<>>
    ELSE LET m == CHOOSE x \in S : \A y \in S \ {x} : NameLess(x, y)
         IN  <<m>> \o SortNames(S \ {m})

\* sorted(...) of a set of art ids.
RECURSIVE SortIds(_)
SortIds(S) ==
    IF S = {} THEN <<>>
    ELSE LET m == CHOOSE x \in S : \A y \in S : x <= y
         IN  <<m>> \o SortIds(S \ {m})

\* ---------------------------------------------------------------- state
VARIABLES
    batches,            \* folder -> the art_ids of its search_results.json
    search_folders,     \* the sorted list of folders (process_search_folders)
    fi,                 \* index of the folder being processed
    ai,                 \* index of the artwork being processed in it
    unique_artworks,    \* art_id -> payload
    art_id_to_folders,  \* art_id -> list of folder names
    rpc,                \* position of the Reconciler script
    csv_rows,           \* rows of the mapping CSV (written by the Reconciler,
                        \* read by the Selector)
    \* a second run of the Reconciler loop over another folder order
    order2,             \* the other order of the folders
    ua2,                \* its unique_artworks
    a2f2,               \* its art_id_to_folders
    \* analyze_and_create_subset
    target_arg,         \* target_size as passed by the caller
    target_size,        \* the local target_size (clamped at line 75)
    min_per_search,
    multi_folder_artworks,   \* list of (art_id, search_folders)
    single_folder_artworks,  \* search_folders string -> list of art_ids
    selected_artworks,  \* list of selection records
    selected_art_ids,   \* set of art_ids
    remaining_slots,
    current_folder_counts,   \* folder name -> count
    ti,                 \* index of the folder in the loops of steps 2 and 3
    folder_remaining,   \* step 3: folder name -> available count
    total_folder_remaining,
    returned,           \* the list returned
    spc,                \* position of the Selector
    \* create_subset_json
    original_artworks,  \* the "artworks" list of the unique-artworks JSON
    subset_artworks,    \* the artworks written to the subset JSON
    found_art_ids,
    missing_art_ids,
    selection_metadata, \* the "selection_metadata" of the subset JSON
    apc                 \* position of create_subset_json

rvars == <<batches, search_folders, fi, ai, unique_artworks,
           art_id_to_folders, rpc>>
avars == <<original_artworks, subset_artworks, found_art_ids, missing_art_ids,
           selection_metadata, apc>>
ovars == <<order2, ua2, a2f2, avars>>
svars == <<target_arg, target_size, min_per_search, multi_folder_artworks,
           single_folder_artworks, selected_artworks, selected_art_ids,
           remaining_slots, current_folder_counts, ti, folder_remaining,
           total_folder_remaining, returned, spc>>
vars == <<rvars, csv_rows, ovars, svars>>

\* The empty dict.
EmptyMap == [x \in {} |-> 0]

\* The record read from position i of folder f.
Artwork(f, i) == [art_id |-> batches[f][i], data |-> <<f, i>>]

\* ------------------------------------------------------------ Reconciler
IsMissing_Never(art_id) == FALSE

\* line 81: if art_id is None
IsMissing(art_id) == art_id = NoId

AddUnique_LastWins(ua, art_id, artwork) ==
    [x \in DOMAIN ua \cup {art_id} |->
        IF x = art_id THEN artwork.data ELSE ua[x]]

AddUnique_OnlyFirst(ua, art_id, artwork) ==
    IF DOMAIN ua = {}
    THEN [x \in {art_id} |-> artwork.data]
    ELSE ua

\* lines 86-87: first occurrence wins
AddUnique(ua, art_id, artwork) ==
    IF art_id \notin DOMAIN ua
    THEN [x \in DOMAIN ua \cup {art_id} |->
            IF x = art_id THEN artwork.data ELSE ua[x]]
    ELSE ua

TrackFolder_NoCheck(a2f, art_id, folder_name) ==
    [x \in DOMAIN a2f \cup {art_id} |->
        IF x = art_id
        THEN (IF art_id \in DOMAIN a2f THEN a2f[art_id] ELSE <<>>)
                 \o <<folder_name>>
        ELSE a2f[x]]

TrackFolder_Replace(a2f, art_id, folder_name) ==
    [x \in DOMAIN a2f \cup {art_id} |->
        IF x = art_id THEN <<folder_name>> ELSE a2f[x]]

TrackFolder_OnlyNew(a2f, art_id, folder_name) ==
    IF art_id \in DOMAIN a2f THEN a2f
    ELSE [x \in DOMAIN a2f \cup {art_id} |->
            IF x = art_id THEN <<folder_name>> ELSE a2f[x]]

\* lines 90-91: art_id_to_folders is a defaultdict(list)
TrackFolder(a2f, art_id, folder_name) ==
    LET cur == IF art_id \in DOMAIN a2f THEN a2f[art_id] ELSE <<>>
    IN  [x \in DOMAIN a2f \cup {art_id} |->
            IF x = art_id
            THEN (IF folder_name \notin Range(cur)
                  THEN Append(cur, folder_name) ELSE cur)
            ELSE a2f[x]]

\* lines 78-91: the body of the loop over the artworks of one folder
ProcessOne(st, folder_name, artwork) ==
    IF IsMissing(artwork.art_id) THEN st
    ELSE [ua  |-> AddUnique(st.ua, artwork.art_id, artwork),
          a2f |-> TrackFolder(st.a2f, artwork.art_id, folder_name)]

\* The Selector has not started.
SIdle ==
    /\ target_arg = 0
    /\ target_size = 0
    /\ min_per_search = 0
    /\ multi_folder_artworks = <<>>
    /\ single_folder_artworks = EmptyMap
    /\ selected_artworks = <<>>
    /\ selected_art_ids = {}
    /\ remaining_slots = 0
    /\ current_folder_counts = EmptyMap
    /\ ti = 0
    /\ folder_remaining = EmptyMap
    /\ total_folder_remaining = 0
    /\ returned = <<>>
    /\ spc = "idle"

\* create_subset_json has not been called.
AIdle ==
    /\ original_artworks = <<>>
    /\ subset_artworks = <<>>
    /\ found_art_ids = {}
    /\ missing_art_ids = {}
    /\ selection_metadata = EmptyMap
    /\ apc = "idle"

\* No second run.
OIdle ==
    /\ order2 = <<>>
    /\ ua2 = EmptyMap
    /\ a2f2 = EmptyMap
    /\ AIdle

\* lines 55-64: the empty maps and the folders sorted by name.  The batches
\* are the contents of the search_results.json files.
RStart ==
    /\ batches \in [Dirs -> SeqsUpTo({NoId} \cup ArtIds, MaxBatch)]
    /\ search_folders = SortNames(Dirs)
    /\ fi = 1
    /\ ai = 1
    /\ unique_artworks = EmptyMap
    /\ art_id_to_folders = EmptyMap
    /\ rpc = "reconcile"
    /\ csv_rows = <<>>

RInit == RStart /\ OIdle /\ SIdle

\* One iteration of "for artwork in artworks".
ProcessArtwork ==
    /\ rpc = "reconcile"
    /\ fi <= Len(search_folders)
    /\ ai <= Len(batches[search_folders[fi]])
    /\ LET f  == search_folders[fi]
           st == ProcessOne([ua |-> unique_artworks, a2f |-> art_id_to_folders],
                            f, Artwork(f, ai))
       IN  /\ unique_artworks' = st.ua
           /\ art_id_to_folders' = st.a2f
    /\ ai' = ai + 1
    /\ UNCHANGED <<batches, search_folders, fi, rpc, csv_rows, ovars, svars>>

\* The artworks of the folder are exhausted: next "for search_folder".
NextFolder ==
    /\ rpc = "reconcile"
    /\ fi <= Len(search_folders)
    /\ ai > Len(batches[search_folders[fi]])
    /\ fi' = fi + 1
    /\ ai' = 1
    /\ UNCHANGED <<batches, search_folders, unique_artworks,
                   art_id_to_folders, rpc, csv_rows, ovars, svars>>

\* line 93: return unique_artworks, dict(art_id_to_folders)
Return ==
    /\ rpc = "reconcile"
    /\ fi > Len(search_folders)
    /\ rpc' = "returned"
    /\ UNCHANGED <<batches, search_folders, fi, ai, unique_artworks,
                   art_id_to_folders, csv_rows, ovars, svars>>

\* lines 154-156: nothing found, sys.exit(1)
ExitEmpty ==
    /\ rpc = "returned"
    /\ DOMAIN unique_artworks = {}
    /\ rpc' = "exit"
    /\ UNCHANGED <<batches, search_folders, fi, ai, unique_artworks,
                   art_id_to_folders, csv_rows, ovars, svars>>

\* lines 119-124: one row per art_id, folders sorted and joined by ";".
\* The joined string is modelled by the sequence of its ";"-separated parts.
MappingRows(a2f) ==
    LET ids == SortIds(DOMAIN a2f)
    IN  [k \in 1..Len(ids) |->
            [art_id |-> ids[k],
             search_folders |-> SortNames(Range(a2f[ids[k]]))]]

\* line 100: list(artworks.values()), the artworks in the order their
\* art_ids were inserted; the payload <<folder, position>> of an artwork
\* tells when it was read.
ValuesInOrder(ua, folders) ==
    LET FolderIndex(f) == CHOOSE k \in 1..Len(folders) : folders[k] = f
        Earlier(x, y) ==
            \/ FolderIndex(ua[x][1]) < FolderIndex(ua[y][1])
            \/ /\ ua[x][1] = ua[y][1]
               /\ ua[x][2] < ua[y][2]
        RECURSIVE InOrder(_)
        InOrder(S) ==
            IF S = {} THEN <<>>
            ELSE LET m == CHOOSE x \in S : \A y \in S \ {x} : Earlier(x, y)
                 IN  <<[art_id |-> m, data |-> ua[m]]>> \o InOrder(S \ {m})
    IN  InOrder(DOMAIN ua)

\* lines 166-167: the outputs are saved, the unique artworks as JSON and the
\* mapping as CSV
SaveMapping ==
    /\ rpc = "returned"
    /\ DOMAIN unique_artworks # {}
    /\ original_artworks' = ValuesInOrder(unique_artworks, search_folders)
    /\ csv_rows' = MappingRows(art_id_to_folders)
    /\ rpc' = "saved"
    /\ UNCHANGED <<batches, search_folders, fi, ai, unique_artworks,
                   art_id_to_folders, order2, ua2, a2f2, subset_artworks,
                   found_art_ids, missing_art_ids, selection_metadata, apc,
                   svars>>

RNext == ProcessArtwork \/ NextFolder \/ Return \/ ExitEmpty \/ SaveMapping

\* The Reconciler script as it runs.
SpecRec == RInit /\ [][RNext]_vars

\* --------------------------------------------- the loop as a function
\* lines 78-91 over the artworks i, i+1, ... of folder f
RECURSIVE ProcessBatch(_, _, _)
ProcessBatch(st, f, i) ==
    IF i > Len(batches[f]) THEN st
    ELSE ProcessBatch(ProcessOne(st, f, Artwork(f, i)), f, i + 1)

\* lines 70-91 over the folders order[k], order[k+1], ...
RECURSIVE ProcessFolders(_, _, _)
ProcessFolders(st, order, k) ==
    IF k > Len(order) THEN st
    ELSE ProcessFolders(ProcessBatch(st, order[k], 1), order, k + 1)

EmptyState == [ua |-> EmptyMap, a2f |-> EmptyMap]

\* The loop of process_search_folders applied to the same batches in two
\* orders, and once more to a folder already processed.
OInit ==
    /\ RStart
    /\ order2 \in Arrangements(SortNames(Dirs), Cardinality(Dirs))
    /\ ua2 = EmptyMap
    /\ a2f2 = EmptyMap
    /\ AIdle
    /\ SIdle

\* The run over the folders sorted by name (the order of line 64).
RunSorted ==
    /\ rpc = "reconcile"
    /\ LET st == ProcessFolders(EmptyState, search_folders, 1)
       IN  /\ unique_artworks' = st.ua
           /\ art_id_to_folders' = st.a2f
    /\ rpc' = "returned"
    /\ UNCHANGED <<batches, search_folders, fi, ai, csv_rows, ovars, svars>>

\* The run over the folders in the order order2.
RunOther ==
    /\ rpc = "returned"
    /\ LET st == ProcessFolders(EmptyState, order2, 1)
       IN  /\ ua2' = st.ua
           /\ a2f2' = st.a2f
    /\ rpc' = "compared"
    /\ UNCHANGED <<batches, search_folders, fi, ai, unique_artworks,
                   art_id_to_folders, csv_rows, order2, avars, svars>>

\* The batch of a folder f that was already processed is processed again.
Reprocess ==
    /\ rpc = "compared"
    /\ \E f \in Dirs :
         LET st == ProcessBatch([ua |-> unique_artworks,
                                 a2f |-> art_id_to_folders], f, 1)
         IN  /\ unique_artworks' = st.ua
             /\ art_id_to_folders' = st.a2f
    /\ rpc' = "reprocessed"
    /\ UNCHANGED <<batches, search_folders, fi, ai, csv_rows, ovars, svars>>

ONext == RunSorted \/ RunOther \/ Reprocess

SpecOrder == OInit /\ [][ONext]_vars

\* =============================================================== Selector
\* The folders named in the mapping CSV read by the Selector.  "search_7"
\* is a seventh query of run-OptionB-multi-queries.py.
CsvFolders == {1, 2, 7}

\* line 114: range(1, 7) ends at search_6
NumSearchFolders == 6

\* line 114: search_folders = ["search_1", ..., "search_6"]
HardFolders == [i \in 1..NumSearchFolders |-> i]

\* The values of the search_folders column: the names of a non-empty set of
\* folders sorted and joined by ";".  The string "a;b" is the sequence
\* <<a, b>> of the names it joins.
FolderStrings == {SortNames(S) : S \in (SUBSET CsvFolders) \ {{}}}

\* The mapping CSVs the Reconciler can write: one row per art_id, sorted by
\* art_id (the art_ids are 1..n).
CsvFiles ==
    UNION {{[k \in 1..n |-> [art_id |-> k, search_folders |-> cols[k]]] :
               cols \in [1..n -> FolderStrings]} : n \in 1..MaxItems}

TargetSizes == (0 - MaxNeg)..MaxTarget
MinPerSearchValues == (0 - MaxNeg)..MaxMin

Max(a, b) == IF a >= b THEN a ELSE b
Min(a, b) == IF a <= b THEN a ELSE b

\* dict.get(key, default)
Get(d, key, default) == IF key \in DOMAIN d THEN d[key] ELSE default

\* d[key] = value on a dict
Put(d, key, value) ==
    [x \in DOMAIN d \cup {key} |-> IF x = key THEN value ELSE d[x]]

IsMulti_Never(search_folders_str) == FALSE

\* line 55: ";" in search_folders
IsMulti(search_folders_str) == Len(search_folders_str) >= 2

\* lines 50-64: the multi-folder list, in row order
MultiOf(rows) ==
    LET m == SelectSeq(rows, LAMBDA r : IsMulti(r.search_folders))
    IN  [k \in 1..Len(m) |-> <<m[k].art_id, m[k].search_folders>>]

\* lines 61-64: the lists of single_folder_artworks, keyed by the string of
\* the column, each in row order
SingleOf(rows) ==
    LET single == SelectSeq(rows, LAMBDA r : ~IsMulti(r.search_folders))
        keys == {single[k].search_folders : k \in 1..Len(single)}
    IN  [key \in keys |->
            LET mine == SelectSeq(single, LAMBDA r : r.search_folders = key)
            IN  [k \in 1..Len(mine) |-> mine[k].art_id]]

\* The keys of single_folder_artworks in insertion order (dict order).
RECURSIVE KeysInOrder(_, _)
KeysInOrder(rows, seen) ==
    IF rows = <<>> THEN <<>>
    ELSE LET key == Head(rows).search_folders
         IN  IF IsMulti(key) \/ key \in seen
             THEN KeysInOrder(Tail(rows), seen)
             ELSE <<key>> \o KeysInOrder(Tail(rows), seen \cup {key})

\* str.split(";") of the column: the names it joins.
Split(search_folders_str) == search_folders_str

\* The column of a single folder name.
NameStr(folder) == <<folder>>

\* lines 116-121: how many selected artworks name each folder
RECURSIVE CountFolders(_, _)
CountFolders(sel, counts) ==
    IF sel = <<>> THEN counts
    ELSE LET names == Split(Head(sel).search_folders)
             added == [f \in DOMAIN counts \cup Range(names) |->
                          Get(counts, f, 0) +
                          Cardinality({i \in 1..Len(names) : names[i] = f})]
         IN  CountFolders(Tail(sel), added)

Slice_All(list, n) == list

\* list[:n] of Python: a negative n counts from the end
Slice(list, n) ==
    LET stop == IF n >= 0 THEN Min(n, Len(list)) ELSE Max(Len(list) + n, 0)
    IN  SubSeq(list, 1, stop)

Available_NoFilter(pool, selected) == pool

\* lines 135-139: [aid for aid in pool if aid not in selected_art_ids]
Available(pool, selected) == SelectSeq(pool, LAMBDA aid : aid \notin selected)

ToAdd_NoBudget(wanted, available, remaining) == Min(wanted, available)

ToAdd_NoPool(wanted, available, remaining) == Min(wanted, remaining)

\* lines 140 and 217: min(needed, len(available_artworks), remaining_slots)
ToAdd(wanted, available, remaining) == Min(wanted, Min(available, remaining))

Allocation_None(remaining, available_count, total) == 0

\* lines 205-210: int(remaining_slots * proportion), one more when the
\* fractional part exceeds 0.5.  The quotient is computed exactly here; the
\* double arithmetic of the code gives the same numbers whenever fewer than
\* 19 slots remain and the pools hold fewer than 40 artworks (it first
\* differs at 19 slots, pool 21 of 38: 11 instead of 10).
Allocation(remaining, available_count, total) ==
    LET product == remaining * available_count
    IN  (product \div total) +
        (IF 2 * (product % total) > total THEN 1 ELSE 0)

Records_Untagged(art_ids, search_folders_str, reason) ==
    [k \in 1..Len(art_ids) |->
        [art_id |-> art_ids[k],
         search_folders |-> search_folders_str,
         selection_reason |-> "multi_folder"]]

\* The records appended for the art_ids drawn, lines 146-154.
Records(art_ids, search_folders_str, reason) ==
    [k \in 1..Len(art_ids) |->
        [art_id |-> art_ids[k],
         search_folders |-> search_folders_str,
         selection_reason |-> reason]]

Clamp_None(total_available, target) == target

\* lines 71-75: target_size is lowered to the number of artworks available
Clamp(total_available, target) ==
    IF total_available < target THEN total_available ELSE target

Shuffled_WithRepeats(list) ==
    {[i \in 1..Len(list) |-> list[p[i]]] : p \in [1..Len(list) -> 1..Len(list)]}

\* lines 110 and 278: the outcomes of random.shuffle(list)
Shuffled(list) == Arrangements(list, Len(list))

\* The caller's arguments and the mapping CSV.
SStart ==
    /\ csv_rows \in CsvFiles
    /\ target_arg \in TargetSizes
    /\ target_size = target_arg
    /\ min_per_search \in MinPerSearchValues
    /\ multi_folder_artworks = <<>>
    /\ single_folder_artworks = EmptyMap
    /\ selected_artworks = <<>>
    /\ selected_art_ids = {}
    /\ remaining_slots = 0
    /\ current_folder_counts = EmptyMap
    /\ ti = 0
    /\ folder_remaining = EmptyMap
    /\ total_folder_remaining = 0
    /\ returned = <<>>
    /\ spc = "analyze"

\* The Reconciler is not part of this run.
RIdle ==
    /\ batches = [f \in Dirs |-> <<>>]
    /\ search_folders = <<>>
    /\ fi = 0
    /\ ai = 0
    /\ unique_artworks = EmptyMap
    /\ art_id_to_folders = EmptyMap
    /\ rpc = "idle"

Init == SStart /\ RIdle /\ OIdle

\* lines 35-75: read the CSV, classify the rows, clamp target_size
Analyze ==
    /\ spc = "analyze"
    /\ multi_folder_artworks' = MultiOf(csv_rows)
    /\ single_folder_artworks' = SingleOf(csv_rows)
    /\ LET total_available ==
               Cardinality({csv_rows[k].art_id : k \in 1..Len(csv_rows)})
       IN  target_size' = Clamp(total_available, target_size)
    /\ spc' = "step1"
    /\ UNCHANGED <<rvars, csv_rows, ovars, target_arg, min_per_search,
                   selected_artworks, selected_art_ids, remaining_slots,
                   current_folder_counts, ti, folder_remaining,
                   total_folder_remaining, returned>>

\* lines 85-121: every multi-folder artwork is selected; when slots remain,
\* the folders of the selected artworks are counted for step 2
Step1 ==
    /\ spc = "step1"
    /\ LET sel == [k \in 1..Len(multi_folder_artworks) |->
                     [art_id |-> multi_folder_artworks[k][1],
                      search_folders |-> multi_folder_artworks[k][2],
                      selection_reason |-> "multi_folder"]]
           left == target_size - Len(sel)
       IN  /\ selected_artworks' = sel
           /\ selected_art_ids' = {sel[k].art_id : k \in 1..Len(sel)}
           /\ remaining_slots' = left
           /\ IF left <= 0
              THEN /\ spc' = "overflow"
                   /\ UNCHANGED <<current_folder_counts, ti>>
              ELSE /\ spc' = "step2"
                   /\ current_folder_counts' = CountFolders(sel, EmptyMap)
                   /\ ti' = 1
    /\ UNCHANGED <<rvars, csv_rows, ovars, target_arg, target_size,
                   min_per_search, multi_folder_artworks,
                   single_folder_artworks, folder_remaining,
                   total_folder_remaining, returned>>

\* lines 107-111: shuffle, return the first target_size records
Overflow ==
    /\ spc = "overflow"
    /\ \E shuffled \in Shuffled(selected_artworks) :
         /\ selected_artworks' = shuffled
         /\ returned' = Slice(shuffled, target_size)
    /\ spc' = "done"
    /\ UNCHANGED <<rvars, csv_rows, ovars, target_arg, target_size,
                   min_per_search, multi_folder_artworks,
                   single_folder_artworks, selected_art_ids, remaining_slots,
                   current_folder_counts, ti, folder_remaining,
                   total_folder_remaining>>

\* lines 130-157: one iteration of the loop of step 2 over search_1..search_6
Step2Folder ==
    /\ spc = "step2"
    /\ LET folder == HardFolders[ti]
           current_count == Get(current_folder_counts, folder, 0)
           needed == Max(0, min_per_search - current_count)
           available_artworks ==
               Available(Get(single_folder_artworks, NameStr(folder), <<>>),
                         selected_art_ids)
           to_add == ToAdd(needed, Len(available_artworks), remaining_slots)
       IN  IF needed > 0 /\ remaining_slots > 0 /\ to_add > 0
           THEN \E selected_from_folder \in Arrangements(available_artworks, to_add) :
                  /\ selected_artworks' = selected_artworks \o
                        Records(selected_from_folder, NameStr(folder),
                                "min_requirement")
                  /\ selected_art_ids' =
                        selected_art_ids \cup Range(selected_from_folder)
                  /\ remaining_slots' = remaining_slots - to_add
                  /\ current_folder_counts' =
                        Put(current_folder_counts, folder, current_count + to_add)
           ELSE UNCHANGED <<selected_artworks, selected_art_ids,
                            remaining_slots, current_folder_counts>>
    /\ ti' = ti + 1
    /\ spc' = IF ti = NumSearchFolders THEN "step3" ELSE "step2"
    /\ UNCHANGED <<rvars, csv_rows, ovars, target_arg, target_size,
                   min_per_search, multi_folder_artworks,
                   single_folder_artworks, folder_remaining,
                   total_folder_remaining, returned>>

\* lines 187-196: the number of unselected single-folder artworks of folder
AvailableCount(folder) ==
    Len(Available(Get(single_folder_artworks, NameStr(folder), <<>>),
                  selected_art_ids))

\* lines 168-200: the pools of step 3 are counted once, before its loop
Step3Start ==
    /\ spc = "step3"
    /\ ti > NumSearchFolders
    /\ LET counts == [folder \in Range(HardFolders) |-> AvailableCount(folder)]
           total_remaining ==
               SeqSum([k \in 1..NumSearchFolders |-> counts[HardFolders[k]]])
       IN  IF remaining_slots > 0 /\ total_remaining > 0
           THEN /\ folder_remaining' = counts
                /\ total_folder_remaining' = total_remaining
                /\ ti' = 1
                /\ spc' = "step3"
           ELSE /\ spc' = "step4"
                /\ UNCHANGED <<folder_remaining, total_folder_remaining, ti>>
    /\ UNCHANGED <<rvars, csv_rows, ovars, target_arg, target_size,
                   min_per_search, multi_folder_artworks,
                   single_folder_artworks, selected_artworks,
                   selected_art_ids, remaining_slots, current_folder_counts,
                   returned>>

Step3Exit_Again(i) == "step3"

\* lines 201 and 243: after the last folder of the list the loop of step 3
\* is left for step 4
Step3Exit(i) == IF i = NumSearchFolders THEN "step4" ELSE "step3"

\* lines 201-241: one iteration of the loop of step 3
Step3Folder ==
    /\ spc = "step3"
    /\ ti <= NumSearchFolders
    /\ LET folder == HardFolders[ti]
           available_count == folder_remaining[folder]
           target_to_add ==
               Allocation(remaining_slots, available_count,
                          total_folder_remaining)
           available_artworks ==
               Available(Get(single_folder_artworks, NameStr(folder), <<>>),
                         selected_art_ids)
           to_add == ToAdd(target_to_add, Len(available_artworks),
                           remaining_slots)
       IN  IF available_count > 0 /\ to_add > 0
           THEN \E selected_from_folder \in Arrangements(available_artworks, to_add) :
                  /\ selected_artworks' = selected_artworks \o
                        Records(selected_from_folder, NameStr(folder),
                                "proportional")
                  /\ selected_art_ids' =
                        selected_art_ids \cup Range(selected_from_folder)
                  /\ remaining_slots' = remaining_slots - to_add
                  /\ current_folder_counts' =
                        Put(current_folder_counts, folder,
                            Get(current_folder_counts, folder, 0) + to_add)
           ELSE UNCHANGED <<selected_artworks, selected_art_ids,
                            remaining_slots, current_folder_counts>>
    /\ ti' = ti + 1
    /\ spc' = Step3Exit(ti)
    /\ UNCHANGED <<rvars, csv_rows, ovars, target_arg, target_size,
                   min_per_search, multi_folder_artworks,
                   single_folder_artworks, folder_remaining,
                   total_folder_remaining, returned>>

RECURSIVE AllRemaining_Listed(_, _, _)
AllRemaining_Listed(keys, single, selected) ==
    IF keys = <<>> THEN <<>>
    ELSE LET key == Head(keys)
             left == IF \E k \in 1..NumSearchFolders : key = NameStr(HardFolders[k])
                     THEN Available(single[key], selected) ELSE <<>>
         IN  [k \in 1..Len(left) |-> <<left[k], key>>] \o
             AllRemaining_Listed(Tail(keys), single, selected)

\* lines 250-254: the unselected artworks of every list of
\* single_folder_artworks, as (art_id, folder) pairs in dict order
RECURSIVE AllRemaining(_, _, _)
AllRemaining(keys, single, selected) ==
    IF keys = <<>> THEN <<>>
    ELSE LET key == Head(keys)
             left == Available(single[key], selected)
         IN  [k \in 1..Len(left) |-> <<left[k], key>>] \o
             AllRemaining(Tail(keys), single, selected)

\* lines 243-274: fill the remaining slots from any folder
Step4 ==
    /\ spc = "step4"
    /\ LET all_remaining_artworks ==
               AllRemaining(KeysInOrder(csv_rows, {}), single_folder_artworks,
                            selected_art_ids)
       IN  IF remaining_slots > 0 /\
              Len(all_remaining_artworks) >= remaining_slots
           THEN \E final_selection \in
                      Arrangements(all_remaining_artworks, remaining_slots) :
                  /\ selected_artworks' = selected_artworks \o
                        [k \in 1..Len(final_selection) |->
                            [art_id |-> final_selection[k][1],
                             search_folders |-> final_selection[k][2],
                             selection_reason |-> "fill_to_target"]]
                  /\ selected_art_ids' = selected_art_ids \cup
                        {final_selection[k][1] : k \in 1..Len(final_selection)}
                  /\ remaining_slots' = 0
           ELSE UNCHANGED <<selected_artworks, selected_art_ids,
                            remaining_slots>>
    /\ spc' = "shuffle"
    /\ UNCHANGED <<rvars, csv_rows, ovars, target_arg, target_size,
                   min_per_search, multi_folder_artworks,
                   single_folder_artworks, current_folder_counts, ti,
                   folder_remaining, total_folder_remaining, returned>>

\* lines 276-305: shuffle the selection in place and return it
Shuffle ==
    /\ spc = "shuffle"
    /\ \E shuffled \in Shuffled(selected_artworks) :
         /\ selected_artworks' = shuffled
         /\ returned' = shuffled
    /\ spc' = "done"
    /\ UNCHANGED <<rvars, csv_rows, ovars, target_arg, target_size,
                   min_per_search, multi_folder_artworks,
                   single_folder_artworks, selected_art_ids, remaining_slots,
                   current_folder_counts, ti, folder_remaining,
                   total_folder_remaining>>

Next ==
    \/ Analyze
    \/ Step1
    \/ Overflow
    \/ Step2Folder
    \/ Step3Start
    \/ Step3Folder
    \/ Step4
    \/ Shuffle

\* One call of analyze_and_create_subset on a mapping CSV.
Spec == Init /\ [][Next]_vars

\* The same call run to its end: the function is straight-line code in one
\* thread, so a statement that can execute does execute.
SpecLive == Init /\ [][Next]_vars /\ WF_vars(Next)

\* The same call on the mapping CSVs of an input folder with the two
\* directories search_1 and search_2, with a positive target_size and a
\* non-negative min_per_search.
TwoFolders == {1, 2}

TwoFolderFiles ==
    UNION {{[k \in 1..n |-> [art_id |-> k, search_folders |-> cols[k]]] :
               cols \in [1..n -> {SortNames(S) : S \in (SUBSET TwoFolders) \ {{}}}]} :
           n \in 1..MaxRows}

TwoInit ==
    /\ csv_rows \in TwoFolderFiles
    /\ target_arg \in 1..MaxWanted
    /\ target_size = target_arg
    /\ min_per_search \in 0..MaxMin
    /\ multi_folder_artworks = <<>>
    /\ single_folder_artworks = EmptyMap
    /\ selected_artworks = <<>>
    /\ selected_art_ids = {}
    /\ remaining_slots = 0
    /\ current_folder_counts = EmptyMap
    /\ ti = 0
    /\ folder_remaining = EmptyMap
    /\ total_folder_remaining = 0
    /\ returned = <<>>
    /\ spc = "analyze"
    /\ RIdle
    /\ OIdle

SpecTwo == TwoInit /\ [][Next]_vars

\* ====================================================== create_subset_json
\* The Catalogs read from the unique-artworks JSON: artworks with distinct
\* art_ids, in the order of the file.
Catalogs ==
    UNION {{[k \in 1..n |-> [art_id |-> ids[k], data |-> <<0, k>>]] :
               ids \in {q \in [1..n -> ArtIds] : NoRepeat(q)}} :
           n \in 0..MaxItems}

\* The selection lists handed to create_subset_json: any records, an art_id
\* may occur twice and need not be in the Catalog.
SelectionLists ==
    UNION {{[k \in 1..n |-> [art_id |-> ids[k],
                             search_folders |-> <<1>>,
                             selection_reason |-> "fill_to_target"]] :
               ids \in [1..n -> ArtIds]} :
           n \in 0..MaxTarget}

\* line 319: {artwork["art_id"] for artwork in selected_artworks}
SelectedIds(selected) == {selected[k].art_id : k \in 1..Len(selected)}

\* lines 335-338: the artworks of the JSON whose art_id is selected
Projected(artworks, ids) == SelectSeq(artworks, LAMBDA a : a.art_id \in ids)

\* line 339: the art_ids of the artworks kept
Found(artworks, ids) ==
    {artworks[k].art_id : k \in {j \in 1..Len(artworks) : artworks[j].art_id \in ids}}

Missing_None(ids, found) == {}

\* line 342: selected_art_ids - found_art_ids
Missing(ids, found) == ids \ found

\* lines 318-364: the subset and its selection_metadata
CreateSubsetJson ==
    /\ spc = "done"
    /\ apc = "idle"
    /\ LET selected_ids == SelectedIds(returned)
           subset == Projected(original_artworks, selected_ids)
           found == Found(original_artworks, selected_ids)
           missing == Missing(selected_ids, found)
       IN  /\ subset_artworks' = subset
           /\ found_art_ids' = found
           /\ missing_art_ids' = missing
           /\ selection_metadata' =
                 [original_total |-> Len(original_artworks),
                  selected_count |-> Len(returned),
                  found_count |-> Cardinality(found),
                  missing_count |-> Cardinality(missing)]
    /\ apc' = "written"
    /\ UNCHANGED <<rvars, csv_rows, order2, ua2, a2f2, original_artworks, svars>>

\* A selection list and a Catalog, before create_subset_json is called.
AInit ==
    /\ RIdle
    /\ csv_rows = <<>>
    /\ order2 = <<>>
    /\ ua2 = EmptyMap
    /\ a2f2 = EmptyMap
    /\ original_artworks \in Catalogs
    /\ subset_artworks = <<>>
    /\ found_art_ids = {}
    /\ missing_art_ids = {}
    /\ selection_metadata = EmptyMap
    /\ apc = "idle"
    /\ target_arg = 0
    /\ target_size = 0
    /\ min_per_search = 0
    /\ multi_folder_artworks = <<>>
    /\ single_folder_artworks = EmptyMap
    /\ selected_artworks = <<>>
    /\ selected_art_ids = {}
    /\ remaining_slots = 0
    /\ current_folder_counts = EmptyMap
    /\ ti = 0
    /\ folder_remaining = EmptyMap
    /\ total_folder_remaining = 0
    /\ returned \in SelectionLists
    /\ spc = "done"

ANext == CreateSubsetJson

\* One call of create_subset_json.
SpecAudit == AInit /\ [][ANext]_vars

\* ======================================================= the two scripts
\* lines 426-428 of the Selector's script pass these arguments
MainTargetSize == 100
MainMinPerSearch == 10

\* The Selector is called on the mapping CSV the Reconciler saved: with the
\* arguments of its script, or with another positive target_size and
\* non-negative min_per_search.
StartSelector ==
    /\ rpc = "saved"
    /\ spc = "idle"
    /\ \E target \in (1..MaxTarget) \cup {MainTargetSize} :
          /\ target_arg' = target
          /\ target_size' = target
    /\ min_per_search' \in (0..MaxMin) \cup {MainMinPerSearch}
    /\ spc' = "analyze"
    /\ UNCHANGED <<rvars, csv_rows, ovars, multi_folder_artworks,
                   single_folder_artworks, selected_artworks,
                   selected_art_ids, remaining_slots, current_folder_counts,
                   ti, folder_remaining, total_folder_remaining, returned>>

MainNext ==
    \/ RunSorted
    \/ ExitEmpty
    \/ SaveMapping
    \/ StartSelector
    \/ Analyze
    \/ Step1
    \/ Overflow
    \/ Step2Folder
    \/ Step3Start
    \/ Step3Folder
    \/ Step4
    \/ Shuffle
    \/ CreateSubsetJson

\* The Reconciler's script, then the Selector's script on its outputs.
SpecMain == RInit /\ [][MainNext]_vars

\* ================================================= the mapping CSV as text
\* A string is the sequence of the code points of its characters, so that
\* "<" on characters is the order Python compares strings by.  The Selector
\* model above reads columns whose folder names are "search_<n>"; for them
\* the text "a;b" and the sequence <<a, b>> determine each other.
Semi == 59
Space == 32

\* line 60: the names of the folders processed start with "search_"
SearchPrefix == <<115, 101, 97, 114, 99, 104, 95>>

DirName(suffix) == SearchPrefix \o suffix

\* The directories of the input folder: "search_1", "search_10", "search_2"
\* and a directory named "search_1;search_2".
ExportDirs ==
    {DirName(<<49>>), DirName(<<49, 48>>), DirName(<<50>>),
     DirName(<<49, Semi>> \o SearchPrefix \o <<50>>)}

\* sorted(...) of a list of strings
RECURSIVE InsertStr(_, _)
InsertStr(sorted, x) ==
    IF sorted = <<>> THEN <<x>>
    ELSE IF LexLess(x, Head(sorted)) THEN <<x>> \o sorted
    ELSE <<Head(sorted)>> \o InsertStr(Tail(sorted), x)

RECURSIVE SortedList(_)
SortedList(list) ==
    IF list = <<>> THEN <<>>
    ELSE InsertStr(SortedList(SubSeq(list, 1, Len(list) - 1)), list[Len(list)])

\* line 123: ";".join(names)
RECURSIVE JoinStr(_)
JoinStr(names) ==
    IF names = <<>> THEN <<>>
    ELSE IF Len(names) = 1 THEN names[1]
    ELSE names[1] \o <<Semi>> \o JoinStr(Tail(names))

\* line 57: text.split(";")
RECURSIVE SplitStr(_)
SplitStr(text) ==
    IF Semi \notin Range(text) THEN <<text>>
    ELSE LET i == CHOOSE k \in 1..Len(text) :
                     /\ text[k] = Semi
                     /\ \A j \in 1..(k - 1) : text[j] # Semi
         IN  <<SubSeq(text, 1, i - 1)>> \o SplitStr(SubSeq(text, i + 1, Len(text)))

\* lines 52 and 59: text.strip()
RECURSIVE Strip(_)
Strip(text) ==
    IF text = <<>> THEN <<>>
    ELSE IF Head(text) = Space THEN Strip(Tail(text))
    ELSE IF text[Len(text)] = Space THEN Strip(SubSeq(text, 1, Len(text) - 1))
    ELSE text

\* line 55: ";" in search_folders
HasSemi(text) == Semi \in Range(text)

\* The folders of a set in the order process_search_folders visits them
\* (line 64).
RECURSIVE InNameOrder(_)
InNameOrder(S) ==
    IF S = {} THEN <<>>
    ELSE LET m == CHOOSE x \in S : \A y \in S \ {x} : LexLess(x, y)
         IN  <<m>> \o InNameOrder(S \ {m})

\* The maps process_search_folders can return for these directories: every
\* art_id found has the list of the directories it was found in, in the
\* order they were processed, each once.
ProvenanceMaps ==
    UNION {[S -> {InNameOrder(T) : T \in (SUBSET ExportDirs) \ {{}}}] :
              S \in (SUBSET ArtIds) \ {{}}}

\* lines 119-124 as text: one row per art_id, ascending
TextRows(a2f) ==
    LET ids == SortIds(DOMAIN a2f)
    IN  [k \in 1..Len(ids) |->
            [art_id |-> ids[k],
             search_folders |-> JoinStr(SortedList(a2f[ids[k]]))]]

\* lines 50-60 as text: the multi-folder list, in row order
TextMultiOf(rows) ==
    LET m == SelectSeq(rows, LAMBDA r : HasSemi(Strip(r.search_folders)))
    IN  [k \in 1..Len(m) |-> <<m[k].art_id, Strip(m[k].search_folders)>>]

\* lines 61-64 as text: the single-folder lists, keyed by the column
TextSingleOf(rows) ==
    LET single == SelectSeq(rows, LAMBDA r : ~HasSemi(Strip(r.search_folders)))
        keys == {Strip(single[k].search_folders) : k \in 1..Len(single)}
    IN  [key \in keys |->
            LET mine == SelectSeq(single, LAMBDA r : Strip(r.search_folders) = key)
            IN  [k \in 1..Len(mine) |-> mine[k].art_id]]

\* process_search_folders has returned a provenance map.
XInit ==
    /\ batches = [f \in Dirs |-> <<>>]
    /\ search_folders = <<>>
    /\ fi = 0
    /\ ai = 0
    /\ art_id_to_folders \in ProvenanceMaps
    /\ unique_artworks = [id \in DOMAIN art_id_to_folders |-> <<0, id>>]
    /\ rpc = "returned"
    /\ csv_rows = <<>>
    /\ OIdle
    /\ SIdle

\* save_art_id_mapping_csv, lines 109-128
ExportMapping ==
    /\ rpc = "returned"
    /\ csv_rows' = TextRows(art_id_to_folders)
    /\ rpc' = "saved"
    /\ UNCHANGED <<batches, search_folders, fi, ai, unique_artworks,
                   art_id_to_folders, ovars, svars>>

\* analyze_and_create_subset, lines 35-64: the rows are read back and
\* classified
ClassifyRows ==
    /\ rpc = "saved"
    /\ spc = "idle"
    /\ multi_folder_artworks' = TextMultiOf(csv_rows)
    /\ single_folder_artworks' = TextSingleOf(csv_rows)
    /\ spc' = "classified"
    /\ UNCHANGED <<rvars, csv_rows, ovars, target_arg, target_size,
                   min_per_search, selected_artworks, selected_art_ids,
                   remaining_slots, current_folder_counts, ti,
                   folder_remaining, total_folder_remaining, returned>>

XNext == ExportMapping \/ ClassifyRows

\* The provenance map is exported and read back.
SpecExport == XInit /\ [][XNext]_vars

\* -------------------------------------------------- Selector: properties
\* The art_ids of a list of selection records.
IdsOf(sel) == [k \in 1..Len(sel) |-> sel[k].art_id]

\* The rows of the CSV whose provenance names two folders or more.
MultiRows == {k \in 1..Len(csv_rows) : Len(csv_rows[k].search_folders) >= 2}

\* The list is made of records of multi-folder rows, tagged multi_folder.
AllMulti(sel) ==
    \A i \in 1..Len(sel) :
        /\ sel[i].selection_reason = "multi_folder"
        /\ \E k \in MultiRows :
              /\ csv_rows[k].art_id = sel[i].art_id
              /\ csv_rows[k].search_folders = sel[i].search_folders

\* C6: for a positive target_size the list returned is never longer than
\* target_size, and its length is the smaller of target_size and the number
\* of distinct artworks of the CSV, whatever the draws.
C6_SizeBound ==
    (spc = "done" /\ target_arg >= 1) =>
        /\ Len(returned) <= target_arg
        /\ Len(returned) = Min(target_arg, Len(csv_rows))

\* A target below the number of artworks, reached through steps 2 and 4.
C6_Witness ==
    /\ spc = "done"
    /\ target_arg >= 2
    /\ target_arg < Len(csv_rows)
    /\ Len(returned) = target_arg
    /\ \E i, j \in 1..Len(returned) :
         /\ returned[i].selection_reason = "min_requirement"
         /\ returned[j].selection_reason = "fill_to_target"

\* C7: at every point of the run the selection names no art_id twice, and
\* neither does the list returned; selected_art_ids is the set of the
\* art_ids selected, which every later draw leaves out.
C7_NoDuplicate ==
    /\ NoRepeat(IdsOf(selected_artworks))
    /\ NoRepeat(IdsOf(returned))
    /\ spc \in {"step2", "step3", "step4", "shuffle"} =>
          selected_art_ids = Range(IdsOf(selected_artworks))

\* Step 3 drew from a folder of which step 2 had already taken an artwork.
C7_Witness ==
    /\ spc = "done"
    /\ \E i, j \in 1..Len(returned) :
         /\ returned[i].selection_reason = "min_requirement"
         /\ returned[j].selection_reason = "proportional"
         /\ returned[i].search_folders = returned[j].search_folders

\* C8: when target_size is at least the number of artworks found in two
\* folders or more, each of them is in the list returned, with its folders
\* and the reason multi_folder (the tag the spec calls multi_source).
C8_TierPriority ==
    (spc = "done" /\ target_arg >= Cardinality(MultiRows)) =>
        \A k \in MultiRows :
            \E i \in 1..Len(returned) :
                /\ returned[i].art_id = csv_rows[k].art_id
                /\ returned[i].search_folders = csv_rows[k].search_folders
                /\ returned[i].selection_reason = "multi_folder"

\* Two multi-folder artworks and a third record from a later step.
C8_Witness ==
    /\ spc = "done"
    /\ Cardinality(MultiRows) = 2
    /\ target_arg > Cardinality(MultiRows)
    /\ Len(returned) = 3
    /\ returned[1].selection_reason # "multi_folder"

\* C9: when the multi-folder artworks are at least target_size (positive),
\* the list returned has exactly target_size records, all of them
\* multi-folder artworks tagged multi_folder, and the loops of steps 2 and 3
\* and the draw of step 4 were never entered.
C9_Tier1Overflow ==
    (spc = "done" /\ target_arg >= 1 /\ Cardinality(MultiRows) >= target_arg) =>
        /\ Len(returned) = target_arg
        /\ AllMulti(returned)
        /\ AllMulti(selected_artworks)
        /\ Len(selected_artworks) = Cardinality(MultiRows)
        /\ ti = 0
        /\ remaining_slots <= 0

\* More multi-folder artworks than slots: the shuffled list is cut.
C9_Witness ==
    /\ spc = "done"
    /\ target_arg = 2
    /\ Cardinality(MultiRows) = 3
    /\ Len(returned) = 2
    /\ returned[1].art_id = 3

\* The folders named in the CSV.
Sources == UNION {Range(csv_rows[k].search_folders) : k \in 1..Len(csv_rows)}

\* The multi-folder artworks (step 1) that name the folder.
Tier1Count(folder) ==
    Cardinality({k \in MultiRows : folder \in Range(csv_rows[k].search_folders)})

Shortfall(folder) == Max(0, min_per_search - Tier1Count(folder))

\* The single-folder artworks of the folder.
Singles(folder) ==
    Cardinality({k \in 1..Len(csv_rows) :
                    csv_rows[k].search_folders = NameStr(folder)})

\* The slots left after step 1.
Budget == target_size - Cardinality(MultiRows)

\* The records returned whose provenance names the folder.
Attributed(folder) ==
    Cardinality({i \in 1..Len(returned) :
                    folder \in Range(returned[i].search_folders)})

\* The quota of the folder can be met: it has the single-folder artworks for
\* its shortfall, and the slots left after step 1 cover the shortfalls of
\* all folders together (so they cover this one at whatever moment the
\* folder is considered).
QuotaFeasible(folder) ==
    /\ Singles(folder) >= Shortfall(folder)
    /\ Budget >= SeqSum([k \in 1..Len(SortNames(Sources)) |->
                            Shortfall(SortNames(Sources)[k])])

\* C10: every folder of the CSV whose quota can be met is named by at least
\* min_per_search of the records returned.
C10_QuotaAllSources ==
    spc = "done" =>
        \A folder \in Sources :
            QuotaFeasible(folder) => Attributed(folder) >= min_per_search

\* The same for the folders search_1..search_6 of line 114 alone.
QuotaListedFolders ==
    spc = "done" =>
        \A folder \in Sources \cap Range(HardFolders) :
            QuotaFeasible(folder) => Attributed(folder) >= min_per_search

\* A listed folder received its whole shortfall in step 2.
QuotaListedReached ==
    /\ spc = "done"
    /\ min_per_search = 2
    /\ \E folder \in Sources \cap Range(HardFolders) :
         /\ QuotaFeasible(folder)
         /\ Tier1Count(folder) = 1
         /\ Attributed(folder) = 2

\* The records selected for the folder alone with the given reason.
Drawn(folder, reason) ==
    Cardinality({i \in 1..Len(selected_artworks) :
                    /\ selected_artworks[i].selection_reason = reason
                    /\ selected_artworks[i].search_folders = NameStr(folder)})

\* The sum of F over the folders of S.
SumOver(S, F(_)) ==
    LET seq == SortNames(S)
    IN  SeqSum([k \in 1..Len(seq) |-> F(seq[k])])

\* The folders of S that come before folder in the order of the names.
Earlier(S, folder) == {g \in S : NameLess(g, folder)}

\* The folders over which the loops of steps 2 and 3 iterate.
Iterated == Range(HardFolders)

\* C11: the loops of steps 2 and 3 consider every folder named in the CSV,
\* in the order of the folder names.
C11_SourceCoverage ==
    spc \in {"step2", "step3"} =>
        /\ \A folder \in Sources : folder \in Iterated
        /\ SelectSeq(HardFolders, LAMBDA f : f \in Sources) = SortNames(Sources)

\* The part of C11 that the code keeps: the folders of the CSV among
\* search_1..search_6 are considered in the order of their names.
ListedInNameOrder ==
    spc \in {"step2", "step3"} =>
        SelectSeq(HardFolders, LAMBDA f : f \in Sources) =
            SortNames(Sources \cap Iterated)

\* The draws of step 2 that come before the folder's turn.
DrawnBefore2(folder) ==
    SumOver(Earlier(Sources, folder), LAMBDA g : Drawn(g, "min_requirement"))

\* The number of min_requirement records C12 gives the folder.
Tier2Due(folder) ==
    IF Tier1Count(folder) < min_per_search
    THEN Min(min_per_search - Tier1Count(folder),
             Min(Singles(folder), Budget - DrawnBefore2(folder)))
    ELSE 0

\* Every min_requirement record is a single-folder artwork of its folder.
Tier2FromOwnPool ==
    \A i \in 1..Len(selected_artworks) :
        selected_artworks[i].selection_reason = "min_requirement" =>
            \E k \in 1..Len(csv_rows) :
                /\ csv_rows[k].art_id = selected_artworks[i].art_id
                /\ csv_rows[k].search_folders = selected_artworks[i].search_folders
                /\ Len(csv_rows[k].search_folders) = 1

\* Step 2 has run to its end.
AfterStep2 == spc \in {"step3", "step4", "shuffle", "done"} /\ ti > 0

\* C12: after step 2 every folder of the CSV whose step-1 count is below
\* min_per_search has min(shortfall, its single-folder artworks, slots left
\* at its turn) records tagged min_requirement, all of them its own
\* single-folder artworks, and every other folder has none.
C12_Tier2DrawAllSources ==
    AfterStep2 =>
        /\ Tier2FromOwnPool
        /\ \A folder \in Sources :
              Drawn(folder, "min_requirement") = Tier2Due(folder)

\* The same for the folders search_1..search_6 alone.
Tier2DrawListed ==
    AfterStep2 =>
        /\ Tier2FromOwnPool
        /\ \A folder \in Sources \cap Iterated :
              Drawn(folder, "min_requirement") = Tier2Due(folder)

\* The single-folder artworks of the folder left when step 3 starts.
Pool3(folder) == Singles(folder) - Drawn(folder, "min_requirement")

\* The slots left when step 3 starts.
Slots3 == Budget - SumOver(Sources, LAMBDA g : Drawn(g, "min_requirement"))

\* The draws of step 3 that come before the folder's turn.
DrawnBefore3(folder) ==
    SumOver(Earlier(Sources, folder), LAMBDA g : Drawn(g, "proportional"))

\* floor(r * pool / total), one more when 2 * ((r * pool) mod total) > total
RoundedShare(r, pool, total) ==
    ((r * pool) \div total) +
    (IF 2 * ((r * pool) % total) > total THEN 1 ELSE 0)

\* Step 3 has run to its end.
AfterStep3 == spc \in {"step4", "shuffle", "done"} /\ ti > 0

\* C13: with R the slots left when step 3 starts and P the sum of the pools
\* of all folders of the CSV at that moment, every folder has
\* min(a, pool, slots left at its turn) records tagged proportional, where
\* a is R * pool / P rounded as above.
C13_Tier3AllocationFromStart ==
    LET total == SumOver(Sources, Pool3)
    IN  (AfterStep3 /\ Slots3 > 0 /\ total > 0) =>
            \A folder \in Sources :
                Drawn(folder, "proportional") =
                    Min(RoundedShare(Slots3, Pool3(folder), total),
                        Min(Pool3(folder), Slots3 - DrawnBefore3(folder)))

\* What the code computes: for the folders search_1..search_6, the share is
\* taken of the slots left at the folder's turn, and the total is the sum of
\* the pools of those folders alone.
Tier3DrawListed ==
    LET total == SumOver(Sources \cap Iterated, Pool3)
    IN  (AfterStep3 /\ Slots3 > 0 /\ total > 0) =>
            /\ \A folder \in Sources \cap Iterated :
                  Drawn(folder, "proportional") =
                     Min(RoundedShare(Slots3 - DrawnBefore3(folder),
                                      Pool3(folder), total),
                         Min(Pool3(folder), Slots3 - DrawnBefore3(folder)))
            /\ \A folder \in Sources \ Iterated :
                  Drawn(folder, "proportional") = 0

\* The places of the selection with the given reason.
WithReason(reason) ==
    {i \in 1..Len(selected_artworks) :
        selected_artworks[i].selection_reason = reason}

\* The slots left when step 4 starts: the records of steps 1-3 are known
\* by their reasons.
Slots4 ==
    target_size - (Len(selected_artworks) - Cardinality(WithReason("fill_to_target")))

\* The single-folder artworks no record of steps 1-3 has selected.
Pool4 ==
    {k \in 1..Len(csv_rows) :
        /\ Len(csv_rows[k].search_folders) = 1
        /\ \A i \in 1..Len(selected_artworks) :
              selected_artworks[i].art_id = csv_rows[k].art_id =>
                 selected_artworks[i].selection_reason = "fill_to_target"}

\* Step 4 has run.
AfterStep4 == spc \in {"shuffle", "done"} /\ ti > 0

\* C14: when slots are left after step 3 and the artworks still unselected
\* are at least as many, step 4 selects exactly that many of them, each once
\* and each tagged fill_to_target with the folder of its row, whatever its
\* folder, and the selection then has target_size records.
C14_Tier4Fill ==
    (AfterStep4 /\ Slots4 > 0 /\ Cardinality(Pool4) >= Slots4) =>
        /\ Cardinality(WithReason("fill_to_target")) = Slots4
        /\ Len(selected_artworks) = target_size
        /\ remaining_slots = 0
        /\ NoRepeat(IdsOf(selected_artworks))
        /\ \A i \in WithReason("fill_to_target") :
              \E k \in Pool4 :
                 /\ csv_rows[k].art_id = selected_artworks[i].art_id
                 /\ csv_rows[k].search_folders = selected_artworks[i].search_folders

\* Step 4 filled a slot that step 3 left over with an artwork of search_7,
\* a folder steps 2 and 3 never drew from.
C14_Witness ==
    /\ spc = "done"
    /\ ti > 0
    /\ Len(returned) = 3
    /\ \E i, j \in 1..Len(returned) :
         /\ returned[i].selection_reason = "fill_to_target"
         /\ returned[i].search_folders = NameStr(7)
         /\ returned[j].selection_reason = "proportional"

\* The case of C15 (step 4 finds fewer unselected artworks than slots left,
\* the branch of lines 271-274) does not occur: target_size was lowered to
\* the number of artworks at line 75, so when step 4 starts the artworks
\* still unselected are at least as many as the slots left.
Tier4PoolSuffices ==
    (spc = "step4" /\ remaining_slots > 0) =>
        Len(AllRemaining(KeysInOrder(csv_rows, {}), single_folder_artworks,
                         selected_art_ids)) >= remaining_slots

\* How often x occurs in the sequence.
Occurrences(seq, x) == Cardinality({i \in 1..Len(seq) : seq[i] = x})

\* The two sequences hold the same records the same number of times.
SameRecords(a, b) ==
    /\ Len(a) = Len(b)
    /\ \A x \in Range(a) \cup Range(b) : Occurrences(a, x) = Occurrences(b, x)

\* C16: the final shuffle (step 5) returns a permutation of the records
\* selected by steps 1-4: no record is added, dropped or altered; and every
\* ordering of those records is an outcome the shuffle can produce.
C16_FinalShuffle ==
    /\ [][spc = "shuffle" =>
             (/\ SameRecords(returned', selected_artworks)
              /\ selected_artworks' = returned'
              /\ spc' = "done")]_vars
    /\ [](spc = "shuffle" =>
             \A order \in Arrangements(selected_artworks, Len(selected_artworks)) :
                ENABLED (Shuffle /\ returned' = order))

\* The list returned starts with a record of step 4 and ends with a
\* multi-folder record of step 1: the order of the steps is gone.
C16_Witness ==
    /\ spc = "done"
    /\ ti > 0
    /\ Len(returned) = 3
    /\ returned[1].selection_reason = "fill_to_target"
    /\ returned[2].selection_reason = "min_requirement"
    /\ returned[3].selection_reason = "multi_folder"

\* The art_ids of the CSV rows.
CatalogIds == {csv_rows[k].art_id : k \in 1..Len(csv_rows)}

\* C17: when the target_size asked for exceeds the number of artworks in the
\* CSV, target_size becomes that number, the run goes on to its return, and
\* the list returned holds every artwork of the CSV exactly once.
C17_Clamp ==
    target_arg > Len(csv_rows) =>
        /\ spc \notin {"idle", "analyze"} => target_size = Len(csv_rows)
        /\ spc = "done" =>
              /\ Len(returned) = Len(csv_rows)
              /\ Range(IdsOf(returned)) = CatalogIds
              /\ NoRepeat(IdsOf(returned))

\* Three records asked of a CSV of two artworks, one of them in a folder
\* outside search_1..search_6: both are returned.
C17_Witness ==
    /\ spc = "done"
    /\ target_arg = 3
    /\ Len(csv_rows) = 2
    /\ target_size = 2
    /\ Len(returned) = 2
    /\ \E k \in 1..2 : csv_rows[k].search_folders = <<7>>

\* C19: a call with target_size zero or negative (and a valid
\* min_per_search) does not run to a normal return and returns no list.
C19_TargetSizeValidated ==
    (target_arg <= 0 /\ min_per_search >= 0) =>
        /\ spc # "done"
        /\ returned = <<>>

\* A call with a negative target_size has returned a list with records in it.
NegativeTargetReturned ==
    /\ spc = "done"
    /\ target_arg < 0
    /\ returned # <<>>

\* C20: a call with a negative min_per_search (and a valid target_size) does
\* not run the selection steps to a normal return.
C20_MinPerSearchValidated ==
    (min_per_search < 0 /\ target_arg >= 1) =>
        spc \notin {"step2", "step3", "step4", "shuffle", "overflow", "done"}

\* A call with a negative min_per_search has returned a full selection in
\* which step 2 drew nothing.
NegativeMinReturned ==
    /\ spc = "done"
    /\ min_per_search < 0
    /\ target_arg >= 1
    /\ Len(returned) = target_arg
    /\ WithReason("min_requirement") = {}

\* C21: a call with a positive target_size and a non-negative
\* min_per_search always reaches its return statement with a list, also when
\* a folder has fewer artworks than min_per_search or the CSV has fewer
\* artworks than target_size.
C21_BestEffort ==
    (target_arg >= 1 /\ min_per_search >= 0) ~> (spc = "done")

\* Before the return some statement of the call can always execute: no draw
\* asks for more than its pool holds and no division is by zero.
NeverStuck == spc # "done" => ENABLED Next

\* Three records asked, two per folder required, of a CSV with one artwork
\* in each of two folders: the call returned the two artworks.
C21_Witness ==
    /\ spc = "done"
    /\ target_arg = 3
    /\ min_per_search = 2
    /\ Len(csv_rows) = 2
    /\ csv_rows[1].search_folders = <<1>>
    /\ csv_rows[2].search_folders = <<2>>
    /\ Len(returned) = 2
    /\ Cardinality(WithReason("min_requirement")) = 2

\* The art_ids of the Catalog read by create_subset_json.
CatalogKeys == {original_artworks[k].art_id : k \in 1..Len(original_artworks)}

\* The art_ids of the selection list handed to create_subset_json.
ListIds == {returned[k].art_id : k \in 1..Len(returned)}

\* C22: after create_subset_json, the artworks written are exactly the
\* artworks of the Catalog whose art_id is in the selection list, each once;
\* the missing ids are exactly the selected ids that are not in the Catalog;
\* found_count + missing_count is the number of distinct selected ids;
\* selected_count is the length of the list; and every missing id is counted.
C22_FilterAndAudit ==
    apc = "written" =>
        /\ Range(subset_artworks) =
              {a \in Range(original_artworks) : a.art_id \in ListIds}
        /\ NoRepeat(subset_artworks)
        /\ missing_art_ids = ListIds \ CatalogKeys
        /\ found_art_ids = ListIds \cap CatalogKeys
        /\ selection_metadata.found_count + selection_metadata.missing_count
              = Cardinality(ListIds)
        /\ selection_metadata.selected_count = Len(returned)
        /\ selection_metadata.missing_count = Cardinality(ListIds \ CatalogKeys)
        /\ selection_metadata.found_count = Len(subset_artworks)

\* A list of three records over two ids, one of them not in the Catalog:
\* one artwork is written, one id is reported missing.
C22_Witness ==
    /\ apc = "written"
    /\ Len(returned) = 3
    /\ Cardinality(ListIds) = 2
    /\ Cardinality(CatalogKeys) = 2
    /\ Len(subset_artworks) = 1
    /\ Cardinality(missing_art_ids) = 1

\* The folder names read back from a row of the CSV (lines 57-59).
ReadBack(row) ==
    LET parts == SplitStr(Strip(row.search_folders))
    IN  {Strip(parts[k]) : k \in 1..Len(parts)}

\* The exported rows: one per art_id of the map, ascending, whose column is
\* the names of the art_id sorted ascending, each once, joined by ";".
ExportedRows ==
    rpc = "saved" =>
        /\ IdsOf(csv_rows) = SortIds(DOMAIN art_id_to_folders)
        /\ \A k \in 1..Len(csv_rows) :
              LET names == InNameOrder(Range(art_id_to_folders[csv_rows[k].art_id]))
              IN  /\ csv_rows[k].search_folders = JoinStr(names)
                  /\ \A i, j \in 1..Len(names) : i < j => LexLess(names[i], names[j])

\* Rows whose folder names hold no ";" are read back as written.
RoundTripPlainNames ==
    rpc = "saved" =>
        \A k \in 1..Len(csv_rows) :
            LET folders == Range(art_id_to_folders[csv_rows[k].art_id])
            IN  (\A name \in folders : ~HasSemi(name)) => ReadBack(csv_rows[k]) = folders

\* C23: the export writes one row per art_id with the sorted, duplicate-free
\* names joined by ";", and splitting the column of a row on ";" gives back
\* exactly the folders of its art_id.
C23_ExportRoundTrip ==
    rpc = "saved" =>
        /\ IdsOf(csv_rows) = SortIds(DOMAIN art_id_to_folders)
        /\ \A k \in 1..Len(csv_rows) :
              /\ csv_rows[k].search_folders =
                    JoinStr(InNameOrder(Range(art_id_to_folders[csv_rows[k].art_id])))
              /\ ReadBack(csv_rows[k]) = Range(art_id_to_folders[csv_rows[k].art_id])

\* The mapping CSV of the folders search_1 = [1, 2, 3], search_2 = [2, 3, 4].
ExampleRows ==
    <<[art_id |-> 1, search_folders |-> <<1>>],
      [art_id |-> 2, search_folders |-> <<1, 2>>],
      [art_id |-> 3, search_folders |-> <<1, 2>>],
      [art_id |-> 4, search_folders |-> <<2>>]>>

\* The call of the example has returned.
ExampleDone ==
    /\ spc = "done"
    /\ csv_rows = ExampleRows
    /\ target_arg = 4
    /\ min_per_search = 1

\* The reason recorded for the art_id in the list returned.
ReasonOf(art_id) ==
    LET i == CHOOSE k \in 1..Len(returned) : returned[k].art_id = art_id
    IN  returned[i].selection_reason

ExampleFourthFilled == ExampleDone => ReasonOf(4) = "fill_to_target"

\* The records appended to selected_artworks by the step.
Appended ==
    SubSeq(selected_artworks', Len(selected_artworks) + 1, Len(selected_artworks'))

\* The step only appends to selected_artworks.
OnlyAppends ==
    /\ Len(selected_artworks') >= Len(selected_artworks)
    /\ SubSeq(selected_artworks', 1, Len(selected_artworks)) = selected_artworks

\* The number of records with the reason in the list.
CountReason(sel, reason) ==
    Cardinality({i \in 1..Len(sel) : sel[i].selection_reason = reason})

\* C25: step 3 is one pass over the folder list: the pools counted before the
\* loop are never counted again, every folder is visited once, in list order,
\* and draws its proportional records in that visit only; after the loop no
\* proportional record is added, and the slots left are filled by step 4
\* with records tagged fill_to_target.
C25_Tier3SinglePass ==
    [][/\ folder_remaining # EmptyMap =>
             UNCHANGED <<folder_remaining, total_folder_remaining>>
       /\ (spc = "step3" /\ folder_remaining # EmptyMap) =>
             /\ ti <= NumSearchFolders
             /\ ti' = ti + 1
             /\ OnlyAppends
             /\ \A k \in 1..Len(Appended) :
                   /\ Appended[k].selection_reason = "proportional"
                   /\ Appended[k].search_folders = NameStr(HardFolders[ti])
             /\ \A i \in 1..Len(selected_artworks) :
                   selected_artworks[i].selection_reason = "proportional" =>
                       \E j \in 1..(ti - 1) :
                           selected_artworks[i].search_folders = NameStr(HardFolders[j])
       /\ spc # "step3" =>
             CountReason(selected_artworks', "proportional") =
                 CountReason(selected_artworks, "proportional")
       /\ spc = "step4" =>
             /\ OnlyAppends
             /\ \A k \in 1..Len(Appended) :
                   Appended[k].selection_reason = "fill_to_target"
             /\ spc' = "shuffle"
      ]_vars

\* Step 3 gave search_1 its record and search_2, by rounding, none; the
\* artwork of search_2 was taken by step 4.
C25_Witness ==
    /\ spc = "done"
    /\ \E i, j \in 1..Len(returned) :
          /\ returned[i].selection_reason = "proportional"
          /\ returned[i].search_folders = <<1>>
          /\ returned[j].selection_reason = "fill_to_target"
          /\ returned[j].search_folders = <<2>>
    /\ CountReason(returned, "proportional") = 1

\* The place of a reason in the order of the steps.
TierRank(reason) ==
    CASE reason = "multi_folder" -> 1
      [] reason = "min_requirement" -> 2
      [] reason = "proportional" -> 3
      [] reason = "fill_to_target" -> 4

\* The place of a position of the call in the order of the steps.
PosRank(pos) ==
    CASE pos = "analyze" -> 0
      [] pos = "step1" -> 1
      [] pos = "overflow" -> 5
      [] pos = "step2" -> 2
      [] pos = "step3" -> 3
      [] pos = "step4" -> 4
      [] pos = "shuffle" -> 5
      [] pos = "done" -> 6

\* The reason of the records a position appends.
ReasonAt(pos) ==
    CASE pos = "step1" -> "multi_folder"
      [] pos = "step2" -> "min_requirement"
      [] pos = "step3" -> "proportional"
      [] pos = "step4" -> "fill_to_target"

\* The records of the list are in the order of the steps.
TierSorted(sel) ==
    \A i, j \in 1..Len(sel) :
        i < j => TierRank(sel[i].selection_reason) <= TierRank(sel[j].selection_reason)

\* C26: until the shuffle the records stand in the order multi_folder,
\* min_requirement, proportional, fill_to_target; the call moves through
\* the steps in that order and each step appends only records of its own
\* reason; steps 2, 3 and 4 draw only while slots remain; the shuffle comes
\* after the last draw, leads to the return, and nothing follows it.
C26_TierOrdering ==
    /\ [](spc \in {"step1", "step2", "step3", "step4", "shuffle", "overflow"} =>
             TierSorted(selected_artworks))
    /\ [][/\ PosRank(spc') >= PosRank(spc)
          /\ spc = "analyze" => selected_artworks' = selected_artworks
          /\ spc \in {"step1", "step2", "step3", "step4"} =>
                /\ OnlyAppends
                /\ \A k \in 1..Len(Appended) :
                      Appended[k].selection_reason = ReasonAt(spc)
          /\ (spc \in {"step2", "step3", "step4"} /\ Len(Appended) > 0) =>
                remaining_slots > 0
          /\ spc' \in {"step2", "step3", "step4"} => remaining_slots' >= 0
          /\ spc = "step1" =>
                spc' = (IF remaining_slots' > 0 THEN "step2" ELSE "overflow")
          /\ spc \in {"shuffle", "overflow"} =>
                /\ SameRecords(selected_artworks', selected_artworks)
                /\ spc' = "done"
         ]_vars
    /\ [](spc = "done" => ~ENABLED Next)

\* A run in which step 1, step 2 and a later step each added a record.
C26_Witness ==
    /\ spc = "shuffle"
    /\ Len(selected_artworks) = 3
    /\ selected_artworks[1].selection_reason = "multi_folder"
    /\ selected_artworks[2].selection_reason = "min_requirement"
    /\ selected_artworks[3].selection_reason \in {"proportional", "fill_to_target"}
    /\ remaining_slots = 0

\* The art_id is in the multi-folder list.
InMulti(art_id) ==
    \E k \in 1..Len(multi_folder_artworks) : multi_folder_artworks[k][1] = art_id

\* The keys of single_folder_artworks whose list holds the art_id.
PoolsOf(art_id) ==
    {key \in DOMAIN single_folder_artworks :
        art_id \in Range(single_folder_artworks[key])}

\* Every art_id of the map is either in the multi-folder list or in exactly
\* one single-folder list, never both.
ExactlyOneClass ==
    spc = "classified" =>
        \A art_id \in DOMAIN art_id_to_folders :
            /\ InMulti(art_id) <=> PoolsOf(art_id) = {}
            /\ Cardinality(PoolsOf(art_id)) <= 1

\* Art_ids whose folder names hold no ";" are classified by the number of
\* their folders.
ClassifiedPlainNames ==
    spc = "classified" =>
        \A art_id \in DOMAIN art_id_to_folders :
            LET folders == Range(art_id_to_folders[art_id])
            IN  (\A name \in folders : ~HasSemi(name)) =>
                    /\ InMulti(art_id) <=> Cardinality(folders) >= 2
                    /\ Cardinality(folders) = 1 => PoolsOf(art_id) = folders

\* C27: after the exported map is read back, an art_id is in the
\* multi-folder list exactly when it was found in two folders or more; an
\* art_id found in one folder is in the single-folder list of that folder
\* and of no other; and every art_id is in exactly one of the two classes.
C27_Classification ==
    spc = "classified" =>
        \A art_id \in DOMAIN art_id_to_folders :
            LET folders == Range(art_id_to_folders[art_id])
            IN  /\ InMulti(art_id) <=> Cardinality(folders) >= 2
                /\ Cardinality(folders) = 1 => PoolsOf(art_id) = folders
                /\ InMulti(art_id) <=> PoolsOf(art_id) = {}

\* C28: wherever steps 2-4 run and up to the shuffle, remaining_slots is
\* target_size less the number of records selected so far, it is not
\* negative, and selected_art_ids is the set of the art_ids of those records.
C28_SlotAccounting ==
    spc \in {"step2", "step3", "step4", "shuffle"} =>
        /\ remaining_slots = target_size - Len(selected_artworks)
        /\ remaining_slots >= 0
        /\ selected_art_ids = Range(IdsOf(selected_artworks))

\* Before step 4, after a multi-folder record and a record drawn by step 2
\* or 3: one slot of three is left.
C28_Witness ==
    /\ spc = "step4"
    /\ target_size = 3
    /\ Len(selected_artworks) = 2
    /\ remaining_slots = 1
    /\ selected_artworks[1].selection_reason = "multi_folder"
    /\ selected_artworks[2].selection_reason \in {"min_requirement", "proportional"}

\* The four selection reasons.
Reasons == {"multi_folder", "min_requirement", "proportional", "fill_to_target"}

\* The record carries a known reason and the folders of its art_id as the
\* CSV gives them; it is tagged multi_folder exactly when these are two or
\* more; otherwise they are one folder, from whose list the art_id comes.
ConsistentRecord(rec) ==
    /\ rec.selection_reason \in Reasons
    /\ \E k \in 1..Len(csv_rows) :
          /\ csv_rows[k].art_id = rec.art_id
          /\ csv_rows[k].search_folders = rec.search_folders
    /\ rec.selection_reason = "multi_folder" <=> Len(Split(rec.search_folders)) >= 2
    /\ rec.selection_reason # "multi_folder" =>
          /\ Len(Split(rec.search_folders)) = 1
          /\ rec.search_folders \in DOMAIN single_folder_artworks
          /\ rec.art_id \in Range(single_folder_artworks[rec.search_folders])

\* C29: every record selected, and every record returned, carries one of the
\* four reasons and the folders of its art_id as given in the CSV; it is
\* tagged multi_folder exactly when it names two folders or more; a record
\* with another reason names exactly one folder, that of the list it was
\* drawn from.
C29_RecordConsistency ==
    /\ \A i \in 1..Len(selected_artworks) : ConsistentRecord(selected_artworks[i])
    /\ \A i \in 1..Len(returned) : ConsistentRecord(returned[i])

\* A list returned with a multi-folder record, a record drawn for the
\* minimum of search_1 and a record of search_7 taken by step 4.
C29_Witness ==
    /\ spc = "done"
    /\ \E i, j, k \in 1..Len(returned) :
          /\ returned[i].selection_reason = "multi_folder"
          /\ Len(returned[i].search_folders) = 2
          /\ returned[j].selection_reason = "min_requirement"
          /\ returned[j].search_folders = <<1>>
          /\ returned[k].selection_reason = "fill_to_target"
          /\ returned[k].search_folders = <<7>>

\* C30: when the Selector has run on the mapping CSV of a reconciliation and
\* create_subset_json on the JSON of the same reconciliation, every art_id
\* selected is a key of unique_artworks, no id is missing, and found_count,
\* selected_count and the number of artworks written are the same.
C30_EndToEnd ==
    (apc = "written" /\ rpc = "saved") =>
        /\ \A i \in 1..Len(returned) : returned[i].art_id \in DOMAIN unique_artworks
        /\ missing_art_ids = {}
        /\ selection_metadata.missing_count = 0
        /\ selection_metadata.found_count = selection_metadata.selected_count
        /\ selection_metadata.selected_count = Len(subset_artworks)
        /\ \A k \in 1..Len(subset_artworks) :
              unique_artworks[subset_artworks[k].art_id] = subset_artworks[k].data

\* Two of the three artworks of a reconciliation were selected and written.
C30_Witness ==
    /\ apc = "written"
    /\ rpc = "saved"
    /\ Cardinality(DOMAIN unique_artworks) = 3
    /\ Len(returned) = 2
    /\ Len(subset_artworks) = 2
    /\ \E i \in 1..2 : Len(returned[i].search_folders) = 2

\* ------------------------------------------------ Reconciler: properties
\* The places <<k, i>> of the input: artwork i of the k-th folder processed.
Places ==
    {p \in (1..Len(search_folders)) \X (1..MaxBatch) :
        p[2] <= Len(batches[search_folders[p[1]]])}

\* The places the loop has gone through so far.
Processed == {p \in Places : p[1] < fi \/ (p[1] = fi /\ p[2] < ai)}

IdAt(p) == batches[search_folders[p[1]]][p[2]]

Before(p, q) == p[1] < q[1] \/ (p[1] = q[1] /\ p[2] < q[2])

\* The first processed place that carries art_id.
FirstPlace(art_id) ==
    CHOOSE p \in Processed :
        /\ IdAt(p) = art_id
        /\ \A q \in Processed : IdAt(q) = art_id => ~Before(q, p)

\* C1: at every point of the run unique_artworks holds one payload for each
\* art_id processed so far and no other key, and the payload is the one of
\* the first record with that art_id in processing order (earliest folder,
\* earliest position): a later record never replaces it.
C1_FirstOccurrenceWins ==
    rpc \in {"reconcile", "returned", "exit", "saved"} =>
        /\ DOMAIN unique_artworks = {IdAt(p) : p \in Processed} \ {NoId}
        /\ \A art_id \in DOMAIN unique_artworks :
             LET p == FirstPlace(art_id)
             IN  unique_artworks[art_id] = <<search_folders[p[1]], p[2]>>

\* An art_id occurs twice in the first folder and again in a later folder;
\* the payload kept is the one of its first place.
C1_Witness ==
    /\ rpc = "returned"
    /\ \E art_id \in DOMAIN unique_artworks :
         /\ Cardinality({p \in Places : IdAt(p) = art_id}) >= 3
         /\ \E p, q \in Places :
              /\ p[1] # q[1]
              /\ IdAt(p) = art_id
              /\ IdAt(q) = art_id
         /\ unique_artworks[art_id] =
              <<search_folders[FirstPlace(art_id)[1]], FirstPlace(art_id)[2]>>
         /\ search_folders[FirstPlace(art_id)[1]] = 10

\* C2: for every art_id of unique_artworks the provenance entry exists, is
\* not empty and is, as a set, exactly the set of folders in which a record
\* with that art_id has been processed; when the loop has returned that is
\* the set of folders whose batch contains the art_id.
C2_ProvenanceComplete ==
    rpc \in {"reconcile", "returned", "exit", "saved"} =>
        /\ DOMAIN art_id_to_folders = DOMAIN unique_artworks
        /\ \A art_id \in DOMAIN unique_artworks :
             /\ art_id_to_folders[art_id] # <<>>
             /\ Range(art_id_to_folders[art_id]) =
                  {search_folders[p[1]] : p \in {q \in Processed : IdAt(q) = art_id}}
             /\ rpc # "reconcile" =>
                  Range(art_id_to_folders[art_id]) =
                     {f \in Dirs : art_id \in Range(batches[f])}

\* An art_id of both folders: its second payload was dropped, both folders
\* are in its provenance.
C2_Witness ==
    /\ rpc = "returned"
    /\ \E art_id \in DOMAIN unique_artworks :
         /\ \A f \in Dirs : art_id \in Range(batches[f])
         /\ Range(art_id_to_folders[art_id]) = Dirs
    /\ \E art_id \in DOMAIN unique_artworks :
         Len(art_id_to_folders[art_id]) = 1

\* C3: no provenance list ever names a folder twice, and processing again
\* the batch of a folder already processed (every art_id of it is a repeat)
\* leaves unique_artworks and art_id_to_folders as they were.
C3_DedupIdempotent ==
    /\ [](\A art_id \in DOMAIN art_id_to_folders :
             NoRepeat(art_id_to_folders[art_id]))
    /\ [][(rpc = "compared" /\ rpc' = "reprocessed") =>
             (/\ unique_artworks' = unique_artworks
              /\ art_id_to_folders' = art_id_to_folders)]_vars

\* A folder whose batch repeats an art_id has been processed twice.
C3_Witness ==
    /\ rpc = "reprocessed"
    /\ \E f \in Dirs :
         /\ Len(batches[f]) = 2
         /\ batches[f][1] = batches[f][2]
         /\ batches[f][1] # NoId
         /\ art_id_to_folders[batches[f][1]] = <<f>>

\* C4: a record without art_id adds no key to unique_artworks or to
\* art_id_to_folders, and the run goes on: when the loop has returned, every
\* record that has an art_id, also one placed after a record without one,
\* is a key of unique_artworks and has its folder in its provenance.
C4_MissingIdSkipped ==
    rpc \in {"reconcile", "returned", "exit", "saved"} =>
        /\ NoId \notin DOMAIN unique_artworks
        /\ NoId \notin DOMAIN art_id_to_folders
        /\ Cardinality(DOMAIN unique_artworks) <=
             Cardinality({p \in Processed : IdAt(p) # NoId})
        /\ rpc # "reconcile" =>
             \A p \in Places :
                IdAt(p) # NoId =>
                   /\ IdAt(p) \in DOMAIN unique_artworks
                   /\ search_folders[p[1]] \in Range(art_id_to_folders[IdAt(p)])

\* A record without art_id at the head of the first folder, a record with
\* one right after it and another in the next folder: both were processed.
C4_Witness ==
    /\ rpc = "returned"
    /\ \E p, q, r \in Places :
         /\ p = <<1, 1>> /\ IdAt(p) = NoId
         /\ q = <<1, 2>> /\ IdAt(q) # NoId
         /\ r[1] = 2 /\ IdAt(r) # NoId /\ IdAt(r) # IdAt(q)
         /\ unique_artworks[IdAt(q)] = <<search_folders[1], 2>>
         /\ unique_artworks[IdAt(r)] = <<search_folders[2], r[2]>>

\* C5: the run over the folders sorted by name and the run over the same
\* folders in another order end with the same keys and, for every art_id,
\* the same set of folders; only the payloads may differ.
C5_OrderIndependent ==
    rpc \in {"compared", "reprocessed"} =>
        /\ DOMAIN ua2 = DOMAIN unique_artworks
        /\ DOMAIN a2f2 = DOMAIN art_id_to_folders
        /\ \A art_id \in DOMAIN a2f2 :
             Range(a2f2[art_id]) = Range(art_id_to_folders[art_id])

\* The two orders differ and so does a payload.
C5_Witness ==
    /\ rpc = "compared"
    /\ order2 # search_folders
    /\ \E art_id \in DOMAIN ua2 : ua2[art_id] # unique_artworks[art_id]
    /\ \E art_id \in DOMAIN a2f2 : a2f2[art_id] # art_id_to_folders[art_id]

====
